---------------------------- MODULE Spec2Model ----------------------------
(***************************************************************************)
(* A model of procfinder.py: the ProcFinder class (the PID snapshot, its   *)
(* setter and the seven detectors), pid_binary, present_test and main.     *)
(*                                                                         *)
(* Text is a sequence of chunks.  A chunk is a piece of text no regular    *)
(* expression or separator of the program cuts in two: "NUL" is the byte   *)
(* \x00, "NL" a line feed, "SP" a blank, "0".."9" the digits, "." a dot,   *)
(* "PATH=" the five characters P A T H =, and so on.                       *)
(*                                                                         *)
(* A call returns a record: exc is "none" or the name of the exception     *)
(* that left the call; type says whether the value is a list or an int.    *)
(***************************************************************************)
EXTENDS Integers, Sequences, FiniteSets, TLC

VARIABLES
  _pids,      \* ProcFinder._pids, the snapshot
  proc,       \* /proc/<pid>/{exe,cwd,environ,fd,task} as the kernel shows them now
  gone,       \* the PIDs that terminated after the snapshot was taken
  packet,     \* /proc/net/packet: whether it is a file, and its text
  ps,         \* the run of `ps -eo pid --no-headers`: seconds taken, bytes printed
  quiet,      \* args.quiet
  pc,         \* the statement of main that runs next
  results,    \* what each detector call of main returned (or raised)
  report,     \* the sections main has printed so far
  raised      \* the exception that ended main, "none" while it runs

vars == <<_pids, proc, gone, packet, ps, quiet, pc, results, report, raised>>

---------------------------------------------------------------------------
(* Bounds of the model *)

MaxPid == 2          \* the processes are 1..MaxPid
MaxEnvLen == 3       \* chunks in an enumerated environment block
MaxThreads == 3      \* entries in an enumerated task listing
MaxListLen == 3      \* elements in a list handed to the pids setter
MaxPsLines == 3      \* lines printed by ps

Pids == 1..MaxPid

---------------------------------------------------------------------------
(* Return values *)

RetList(l) == [exc |-> "none", type |-> "list", list |-> l, int |-> 0]
RetInt(n) == [exc |-> "none", type |-> "int", list |-> <<>>, int |-> n]
Raise(e) == [exc |-> e, type |-> "none", list |-> <<>>, int |-> 0]
NotRun == [exc |-> "none", type |-> "pending", list |-> <<>>, int |-> 0]

(* A file, link or directory of /proc: readable with its content, or an    *)
(* access that raises OSError.                                             *)
File(v) == [ok |-> TRUE, v |-> v]
NoEnt == [ok |-> FALSE, v |-> <<>>]

Elems(s) == {s[i] : i \in 1..Len(s)}
NoDup(s) == \A i, j \in 1..Len(s) : s[i] = s[j] => i = j

---------------------------------------------------------------------------
(* Python's text operations, on chunk sequences *)

Whitespace == {"SP", "NL"}
DigitVal == ("0" :> 0) @@ ("1" :> 1) @@ ("2" :> 2) @@ ("3" :> 3) @@ ("4" :> 4) @@
            ("5" :> 5) @@ ("6" :> 6) @@ ("7" :> 7) @@ ("8" :> 8) @@ ("9" :> 9)

(* str.split(sep): n separators give n + 1 pieces, the empty text one *)
RECURSIVE split_from(_, _, _, _)
split_from(s, sep, i, cur) ==
  IF i > Len(s) THEN <<cur>>
  ELSE IF s[i] = sep THEN <<cur>> \o split_from(s, sep, i + 1, <<>>)
  ELSE split_from(s, sep, i + 1, Append(cur, s[i]))

split(s, sep) == split_from(s, sep, 1, <<>>)

(* iterating a text file, and readlines(): each line keeps its line feed,  *)
(* an empty file has no line                                               *)
RECURSIVE lines_from(_, _, _)
lines_from(s, i, cur) ==
  IF i > Len(s) THEN (IF cur = <<>> THEN <<>> ELSE <<cur>>)
  ELSE IF s[i] = "NL" THEN <<Append(cur, "NL")>> \o lines_from(s, i + 1, <<>>)
  ELSE lines_from(s, i + 1, Append(cur, s[i]))

readlines(s) == lines_from(s, 1, <<>>)

(* str.split() without a separator: the runs between whitespace *)
RECURSIVE split_ws_from(_, _, _)
split_ws_from(s, i, cur) ==
  IF i > Len(s) THEN (IF cur = <<>> THEN <<>> ELSE <<cur>>)
  ELSE IF s[i] \in Whitespace
       THEN (IF cur = <<>> THEN <<>> ELSE <<cur>>) \o split_ws_from(s, i + 1, <<>>)
  ELSE split_ws_from(s, i + 1, Append(cur, s[i]))

split_ws(s) == split_ws_from(s, 1, <<>>)

(* x.strip(): whitespace off both ends *)
RECURSIVE strip(_)
strip(s) ==
  IF s = <<>> THEN s
  ELSE IF s[1] \in Whitespace THEN strip(Tail(s))
  ELSE IF s[Len(s)] \in Whitespace THEN strip(SubSeq(s, 1, Len(s) - 1))
  ELSE s

(* int(x) of a text: the decimal value of its digits, whitespace around    *)
(* them ignored; -1 stands for ValueError                                  *)
RECURSIVE decimal(_, _)
decimal(d, acc) ==
  IF d = <<>> THEN acc ELSE decimal(Tail(d), 10 * acc + DigitVal[d[1]])

int(x) ==
  LET d == strip(x) IN
  IF d # <<>> /\ \A i \in 1..Len(d) : d[i] \in DOMAIN DigitVal
  THEN decimal(d, 0) ELSE -1

(* re.findall(x, text) of a pattern x of digits finds something: x occurs  *)
(* somewhere in the text                                                   *)
findall(x, text) ==
  \E i \in 1..(Len(text) - Len(x) + 1) : SubSeq(text, i, i + Len(x) - 1) = x

---------------------------------------------------------------------------
(* The regular expressions, as re.match applies them (anchored at the     *)
(* start; '.' never matches a line feed)                                   *)

NoNewline(s, from, to) == \A k \in from..to : s[k] # "NL"

(* '.*\(deleted\)$' *)
match_deleted(link) ==
  \E k \in 1..Len(link) :
    /\ link[k] = "(deleted)"
    /\ NoNewline(link, 1, k - 1)
    /\ \/ k = Len(link)
       \/ k = Len(link) - 1 /\ link[Len(link)] = "NL"

(* '^PATH=.*\..*' *)
match_path(j) ==
  /\ Len(j) >= 1
  /\ j[1] = "PATH="
  /\ \E k \in 2..Len(j) : j[k] = "." /\ NoNewline(j, 2, k - 1)

(* 'LD_PRELOAD=.*' *)
match_preload(j) == Len(j) >= 1 /\ j[1] = "LD_PRELOAD="

(* '^/tmp.*|^/dev/shm.*|^/var/tmp.*' *)
match_cwd(link) == Len(link) >= 1 /\ link[1] \in {"/tmp", "/dev/shm", "/var/tmp"}

---------------------------------------------------------------------------
(* Access to /proc/<pid>/<name>: a PID with no directory raises OSError *)

entry(fs, pid, name) == IF pid \in DOMAIN fs THEN fs[pid][name] ELSE NoEnt

(* how often a pid is appended for one environment list *)
RECURSIVE repeat(_, _)
repeat(x, n) == IF n = 0 THEN <<>> ELSE <<x>> \o repeat(x, n - 1)

---------------------------------------------------------------------------
(* ProcFinder.deleted_check *)
RECURSIVE deleted_from(_, _, _, _)
deleted_from(pids, fs, i, deleted_pids) ==
  IF i > Len(pids) THEN RetList(deleted_pids)
  ELSE LET pid == pids[i]
           link == entry(fs, pid, "exe")
       IN IF ~link.ok THEN deleted_from(pids, fs, i + 1, deleted_pids)
          ELSE IF match_deleted(link.v)
               THEN deleted_from(pids, fs, i + 1, Append(deleted_pids, pid))
               ELSE deleted_from(pids, fs, i + 1, deleted_pids)

deleted_check(pids, fs) == deleted_from(pids, fs, 1, <<>>)

(* ProcFinder.path_check.  env_list is a local of the call: it is unbound  *)
(* until some line of some environ file has been split, and it keeps the   *)
(* split of the last line read, of whichever process.                      *)
Unbound == [bound |-> FALSE, v |-> <<>>]

env_after(env_list, text) ==
  LET lines == readlines(text) IN
  IF lines = <<>> THEN env_list
  ELSE [bound |-> TRUE, v |-> split(lines[Len(lines)], "NUL")]

RECURSIVE path_from(_, _, _, _, _)
path_from(pids, fs, i, env_list, path_pids) ==
  IF i > Len(pids) THEN RetList(path_pids)
  ELSE LET pid == pids[i]
           open_env == entry(fs, pid, "environ")
       IN IF ~open_env.ok THEN path_from(pids, fs, i + 1, env_list, path_pids)
          ELSE LET env == env_after(env_list, open_env.v) IN
               IF ~env.bound THEN Raise("UnboundLocalError")
               ELSE path_from(pids, fs, i + 1, env,
                      path_pids \o repeat(pid,
                        Cardinality({k \in 1..Len(env.v) : match_path(env.v[k])})))

path_check(pids, fs) == path_from(pids, fs, 1, Unbound, <<>>)

(* ProcFinder.preload_check *)
RECURSIVE preload_from(_, _, _, _, _)
preload_from(pids, fs, i, env_list, preload_pids) ==
  IF i > Len(pids) THEN RetList(preload_pids)
  ELSE LET pid == pids[i]
           open_env == entry(fs, pid, "environ")
       IN IF ~open_env.ok THEN preload_from(pids, fs, i + 1, env_list, preload_pids)
          ELSE LET env == env_after(env_list, open_env.v) IN
               IF ~env.bound THEN Raise("UnboundLocalError")
               ELSE preload_from(pids, fs, i + 1, env,
                      preload_pids \o repeat(pid,
                        Cardinality({k \in 1..Len(env.v) : match_preload(env.v[k])})))

preload_check(pids, fs) == preload_from(pids, fs, 1, Unbound, <<>>)

(* ProcFinder.cwd_check *)
RECURSIVE cwd_from(_, _, _, _)
cwd_from(pids, fs, i, cwd_pids) ==
  IF i > Len(pids) THEN RetList(cwd_pids)
  ELSE LET pid == pids[i]
           open_cwd == entry(fs, pid, "cwd")
       IN IF ~open_cwd.ok THEN cwd_from(pids, fs, i + 1, cwd_pids)
          ELSE IF match_cwd(open_cwd.v)
               THEN cwd_from(pids, fs, i + 1, Append(cwd_pids, pid))
               ELSE cwd_from(pids, fs, i + 1, cwd_pids)

cwd_check(pids, fs) == cwd_from(pids, fs, 1, <<>>)

(* ProcFinder.thread_check: the first and the last name of the listing *)
SpreadLimit == 1000

thread_flag(thread_dirs) ==
  int(thread_dirs[Len(thread_dirs)]) - int(thread_dirs[1]) > SpreadLimit

RECURSIVE thread_from(_, _, _, _)
thread_from(pids, fs, i, thread_pids) ==
  IF i > Len(pids) THEN RetList(thread_pids)
  ELSE LET pid == pids[i]
           thread_dirs == entry(fs, pid, "task")
       IN IF ~thread_dirs.ok THEN thread_from(pids, fs, i + 1, thread_pids)
          ELSE IF thread_dirs.v = <<>> THEN Raise("IndexError")
          ELSE IF \E k \in {1, Len(thread_dirs.v)} : int(thread_dirs.v[k]) < 0
               THEN Raise("ValueError")
          ELSE IF thread_flag(thread_dirs.v)
               THEN thread_from(pids, fs, i + 1, Append(thread_pids, pid))
               ELSE thread_from(pids, fs, i + 1, thread_pids)

thread_check(pids, fs) == thread_from(pids, fs, 1, <<>>)

(* ProcFinder.promiscuous_check *)
(* the last field of every line after the header *)
RECURSIVE inodes_from(_, _)
inodes_from(packet_read, i) ==
  IF i > Len(packet_read) THEN <<>>
  ELSE LET fields == split_ws(packet_read[i]) IN
       <<fields[Len(fields)]>> \o inodes_from(packet_read, i + 1)

inode_list_of(text) == inodes_from(readlines(text), 2)

(* some readable link of the fd listing contains some inode of the list *)
fd_hit(fd_list, inode_list) ==
  \E f \in 1..Len(fd_list) :
    /\ fd_list[f].ok
    /\ \E n \in 1..Len(inode_list) : findall(inode_list[n], fd_list[f].v)

RECURSIVE promiscuous_from(_, _, _, _, _)
promiscuous_from(pids, fs, inode_list, i, promiscuous_pids) ==
  IF i > Len(pids) THEN RetList(promiscuous_pids)
  ELSE LET pid == pids[i]
           fd_list == entry(fs, pid, "fd")
       IN IF ~fd_list.ok
          THEN promiscuous_from(pids, fs, inode_list, i + 1, promiscuous_pids)
          ELSE IF fd_hit(fd_list.v, inode_list) /\ pid \notin Elems(promiscuous_pids)
               THEN promiscuous_from(pids, fs, inode_list, i + 1,
                                     Append(promiscuous_pids, pid))
               ELSE promiscuous_from(pids, fs, inode_list, i + 1, promiscuous_pids)

(* promiscuous_check without its first two lines: a missing table reads   *)
(* as a table without sockets                                              *)
promiscuous_check_no_guard(pids, fs, pk) ==
  IF ~pk.isfile THEN RetList(<<>>)
  ELSE promiscuous_from(pids, fs, inode_list_of(pk.text), 1, <<>>)

promiscuous_check(pids, fs, pk) ==
  IF ~pk.isfile THEN RetInt(-1)
  ELSE IF \E i \in 2..Len(readlines(pk.text)) : split_ws(readlines(pk.text)[i]) = <<>>
       THEN Raise("IndexError")
  ELSE promiscuous_from(pids, fs, inode_list_of(pk.text), 1, <<>>)

(* ProcFinder.ps_check.  list(set) gives the elements in an order the      *)
(* language does not fix: the call returns one of the enumerations.        *)
PsTimeout == 15

Enumerations(S) ==
  {l \in [1..Cardinality(S) -> S] : \A x \in S : \E i \in 1..Cardinality(S) : l[i] = x}

output_list_of(output) ==
  LET parts == split(output, "NL") IN
  IF Len(parts) <= 2 THEN <<>> ELSE SubSeq(parts, 1, Len(parts) - 2)

symmetric_difference(A, B) == (A \ B) \cup (B \ A)

ps_check(pids, run) ==
  IF run.seconds > PsTimeout THEN {Raise("TimeoutExpired")}
  ELSE LET output_list == output_list_of(run.output)
           output_int == [k \in 1..Len(output_list) |-> int(output_list[k])]
       IN IF \E k \in 1..Len(output_int) : output_int[k] < 0
          THEN {Raise("ValueError")}
          ELSE {RetList(l) :
                  l \in Enumerations(symmetric_difference(Elems(output_int), Elems(pids)))}

(* pid_binary *)
RECURSIVE binary_from(_, _, _, _)
binary_from(pids, fs, i, binary_names) ==
  IF i > Len(pids) THEN binary_names
  ELSE LET binary == entry(fs, pids[i], "exe") IN
       IF binary.ok THEN binary_from(pids, fs, i + 1, Append(binary_names, binary.v))
       ELSE binary_from(pids, fs, i + 1, binary_names)

pid_binary(pids, fs) == binary_from(pids, fs, 1, <<>>)

---------------------------------------------------------------------------
(* main: one action per detector call and the section it prints.  An       *)
(* exception no statement of main catches ends the scan.                   *)

Section(name, state, pid_list, binaries) ==
  [name |-> name, state |-> state, pids |-> pid_list, binaries |-> binaries]

(* the if/else that follows a detector call in main *)
Shown(name, check) ==
  IF Len(check) = 0 THEN Section(name, "clear", <<>>, <<>>)
  ELSE Section(name, "flagged", check,
               IF quiet THEN <<>> ELSE pid_binary(check, proc))

Abort(e) == pc' = "aborted" /\ raised' = e

(* a call followed by the inline if/else: path, ps, thread, cwd, preload *)
Present(name, r, next) ==
  /\ results' = [results EXCEPT ![name] = r]
  /\ IF r.exc # "none"
     THEN Abort(r.exc) /\ report' = report
     ELSE /\ report' = Append(report, Shown(name, r.list))
          /\ pc' = next
          /\ raised' = raised
  /\ UNCHANGED <<_pids, proc, gone, packet, ps, quiet>>

(* present_test(p.deleted_check(), ...): present_test reads the name args, *)
(* which is a local of main and no global: the flagged branch prints the   *)
(* list and raises NameError.                                              *)
DeletedStep ==
  /\ pc = "deleted"
  /\ LET r == deleted_check(_pids, proc) IN
     /\ results' = [results EXCEPT !.deleted = r]
     /\ IF Len(r.list) = 0
        THEN /\ report' = Append(report, Section("deleted", "clear", <<>>, <<>>))
             /\ pc' = "path"
             /\ raised' = raised
        ELSE /\ report' = Append(report, Section("deleted", "flagged", r.list, <<>>))
             /\ Abort("NameError")
  /\ UNCHANGED <<_pids, proc, gone, packet, ps, quiet>>

PathStep == pc = "path" /\ Present("path", path_check(_pids, proc), "promiscuous")

(* promiscuous_check = p.promiscuous_check() *)
PromiscuousCall ==
  /\ pc = "promiscuous"
  /\ LET r == promiscuous_check(_pids, proc, packet) IN
     /\ results' = [results EXCEPT !.promiscuous = r]
     /\ IF r.exc # "none" THEN Abort(r.exc)
        ELSE pc' = "promiscuous2" /\ raised' = raised
  /\ UNCHANGED <<_pids, proc, gone, packet, ps, quiet, report>>

(* if p.promiscuous_check() == -1: a second call *)
PromiscuousUnsupported ==
  /\ pc = "promiscuous2"
  /\ LET r == promiscuous_check(_pids, proc, packet) IN
     IF r.exc # "none" THEN Abort(r.exc) /\ report' = report
     ELSE IF r.type = "int" /\ r.int = -1
          THEN /\ report' = Append(report, Section("promiscuous", "unsupported", <<>>, <<>>))
               /\ pc' = "ps"
               /\ raised' = raised
          ELSE pc' = "promiscuous3" /\ raised' = raised /\ report' = report
  /\ UNCHANGED <<_pids, proc, gone, packet, ps, quiet, results>>

(* elif len(p.promiscuous_check()) == 0: a third call; the else branch     *)
(* prints the list of the first call                                       *)
PromiscuousShown ==
  /\ pc = "promiscuous3"
  /\ LET r == promiscuous_check(_pids, proc, packet) IN
     IF r.exc # "none" THEN Abort(r.exc) /\ report' = report
     ELSE IF r.type = "int" \/ (Len(r.list) # 0 /\ results.promiscuous.type = "int" /\ ~quiet)
          THEN Abort("TypeError") /\ report' = report
          ELSE /\ report' = Append(report,
                   IF Len(r.list) = 0 THEN Section("promiscuous", "clear", <<>>, <<>>)
                   ELSE Section("promiscuous", "flagged", results.promiscuous.list,
                                IF quiet THEN <<>>
                                ELSE pid_binary(results.promiscuous.list, proc)))
               /\ pc' = "ps"
               /\ raised' = raised
  /\ UNCHANGED <<_pids, proc, gone, packet, ps, quiet, results>>

PsStep == pc = "ps" /\ \E r \in ps_check(_pids, ps) : Present("ps", r, "thread")

ThreadStep == pc = "thread" /\ Present("thread", thread_check(_pids, proc), "cwd")

CwdStep == pc = "cwd" /\ Present("cwd", cwd_check(_pids, proc), "preload")

PreloadStep == pc = "preload" /\ Present("preload", preload_check(_pids, proc), "done")

(* A process of the snapshot terminates while the scan runs.  Its links    *)
(* become unreadable; its environ file and its fd and task directories     *)
(* become unreadable too, or they read as empty.                           *)
Terminated ==
  {[exe |-> NoEnt, cwd |-> NoEnt, environ |-> e, fd |-> e, task |-> e] :
     e \in {NoEnt, File(<<>>)}}

Vanish ==
  /\ pc \notin {"done", "aborted"}
  /\ \E p \in Pids \ gone, t \in Terminated :
       /\ proc' = [proc EXCEPT ![p] = t]
       /\ gone' = gone \cup {p}
  /\ UNCHANGED <<_pids, packet, ps, quiet, pc, results, report, raised>>

Scan ==
  \/ DeletedStep
  \/ PathStep
  \/ PromiscuousCall
  \/ PromiscuousUnsupported
  \/ PromiscuousShown
  \/ PsStep
  \/ ThreadStep
  \/ CwdStep
  \/ PreloadStep

Next == Scan \/ Vanish

---------------------------------------------------------------------------
(* ProcFinder.pids, the setter.  A Python object is a tagged value here,   *)
(* since the argument need not be a list and its elements need not be      *)
(* integers; the scans above hold the constructor's list, all integers,    *)
(* written as plain numbers.                                               *)

PyInt(n) == [type |-> "int", val |-> n]
PyStr == [type |-> "str", val |-> 0]
PyNone == [type |-> "NoneType", val |-> 0]
PyList(items) == [type |-> "list", items |-> items]
PyTuple(items) == [type |-> "tuple", items |-> items]

isinstance(x, t) == x.type = t

(* the for loop: every integer element assigns the whole list, the first   *)
(* other element raises                                                    *)
RECURSIVE setter_from(_, _, _)
setter_from(pid_list, i, stored) ==
  IF i > Len(pid_list.items) THEN [pids |-> stored, exc |-> "none"]
  ELSE IF isinstance(pid_list.items[i], "int")
       THEN setter_from(pid_list, i + 1, pid_list.items)
       ELSE [pids |-> stored, exc |-> "TypeError"]

pids_setter(stored, pid_list) ==
  IF isinstance(pid_list, "list") THEN setter_from(pid_list, 1, stored)
  ELSE [pids |-> stored, exc |-> "TypeError"]

---------------------------------------------------------------------------
(* The inputs *)

AllSeqs(S, n) == UNION {[1..k -> S] : k \in 0..n}

Digit(n) == CHOOSE d \in DOMAIN DigitVal : DigitVal[d] = n

Ascending == [i \in 1..MaxPid |-> i]

ExeApp == <<"/usr/bin/app">>
ExeDeleted == <<"/usr/bin/app", " ", "(deleted)">>

Benign ==
  [exe |-> File(ExeApp),
   cwd |-> File(<<"/">>),
   environ |-> File(<<"PATH=", "/bin", "NUL">>),
   fd |-> File(<<File(<<"/dev/null">>)>>),
   task |-> File(<< <<"1", "0", "0">> >>)]

Suspect ==
  [exe |-> File(ExeApp),
   cwd |-> File(<<"/tmp", "/x">>),
   environ |-> File(<<"PATH=", "/bin:", ".", "NUL", "LD_PRELOAD=", "/evil", ".", "so", "NUL">>),
   fd |-> File(<<File(<<"socket:[", "2", "3", "]">>)>>),
   task |-> File(<< <<"1", "0", "0">>, <<"1", "2", "0", "0">> >>)]

Deleted == [Benign EXCEPT !.exe = File(ExeDeleted)]

(* /proc/net/packet: the header line, then one line per packet socket *)
PacketHeader == <<"sk", "SP", "Inode", "NL">>
PacketLine(inode) == <<"ffff8800", "SP", "SP">> \o inode \o <<"NL">>
PacketAbsent == [isfile |-> FALSE, text |-> <<>>]
PacketFile(text) == [isfile |-> TRUE, text |-> text]

(* what ps prints: one right-aligned PID per line, its own PID last *)
PsLine(n) == <<"SP", Digit(n), "NL">>
PsOwn == <<"SP", "9", "NL">>

RECURSIVE PsLines(_)
PsLines(pid_seq) ==
  IF pid_seq = <<>> THEN <<>> ELSE PsLine(pid_seq[1]) \o PsLines(Tail(pid_seq))

PsRun(seconds, output) == [seconds |-> seconds, output |-> output]
(* seconds ps may take: well within the timeout, or beyond it *)
PsSeconds == {1, 16}

NoResults ==
  [d \in {"deleted", "path", "promiscuous", "ps", "thread", "cwd", "preload"} |-> NotRun]

Start ==
  /\ gone = {}
  /\ pc = "deleted"
  /\ results = NoResults
  /\ report = <<>>
  /\ raised = "none"

(* a scan of a few whole processes, of which any may terminate *)
Init ==
  /\ Start
  /\ _pids \in Enumerations(Pids)
  /\ proc \in [Pids -> {Benign, Suspect, Deleted}]
  /\ packet \in {PacketAbsent, PacketFile(PacketHeader),
                 PacketFile(PacketHeader \o PacketLine(<<"2", "3">>))}
  /\ ps \in {PsRun(16, <<>>),
             PsRun(1, PsLines(Ascending) \o PsOwn),
             PsRun(1, PsLines(Tail(Ascending)) \o PsOwn)}
  /\ quiet \in BOOLEAN

Spec == Init /\ [][Next]_vars

(* The rest of a scan's input, when one detector's input is enumerated *)
Plain ==
  /\ Start
  /\ _pids \in Enumerations(Pids)
  /\ quiet = FALSE

PlainPs == ps = PsRun(1, PsLines(Ascending) \o PsOwn)
PlainPacket == packet = PacketFile(PacketHeader)

(* path_check and preload_check over every short environment block, and   *)
(* over some longer ones, one of them of two lines                         *)
EnvChunks == {"PATH=", "LD_PRELOAD=", ".", "NUL"}

EnvBlocks ==
  AllSeqs(EnvChunks, MaxEnvLen) \cup
  {<<"LD_PRELOAD=", "/evil", ".", "so", "NUL">>,
   <<"MY_LD_PRELOAD_LOG=", "1", "NUL">>,
   <<"PATH=", "/bin", "NUL", "HOME=", "/home/a", ".", "b", "NUL">>,
   <<"PATH=", ".", "NUL", "PATH=", ".", "/x", "NUL">>,
   <<"LD_PRELOAD=", "/evil", ".", "so", "NUL", "X=", "a", "NL", "b", "NUL">>}

InitEnv ==
  /\ Plain /\ PlainPs /\ PlainPacket
  /\ \E e \in [Pids -> EnvBlocks] :
       proc = [p \in Pids |-> [Benign EXCEPT !.environ = File(e[p])]]

SpecEnv == InitEnv /\ [][Scan]_vars

(* thread_check over every short task listing, in every order *)
ThreadNames ==
  {<<"1", "0", "0">>, <<"1", "5", "0">>, <<"9", "0", "0">>, <<"1", "2", "0", "0">>}

TaskListings == {l \in AllSeqs(ThreadNames, MaxThreads) : l # <<>> /\ NoDup(l)}

InitThread ==
  /\ Plain /\ PlainPs /\ PlainPacket
  /\ \E t \in [Pids -> TaskListings] :
       proc = [p \in Pids |-> [Benign EXCEPT !.task = File(t[p])]]

SpecThread == InitThread /\ [][Scan]_vars

(* promiscuous_check over packet tables and fd listings *)
MaxFds == 2
MaxSockets == 2

SocketLink(inode) == <<"socket:[">> \o inode \o <<"]">>

Inodes == {<<"2", "3">>, <<"5">>}

FdLinks ==
  {File(SocketLink(<<"2", "3">>)), File(SocketLink(<<"1", "2", "3", "4">>)),
   File(SocketLink(<<"7">>)), File(<<"/tmp/f", "2", "3">>), File(<<"/dev/null">>), NoEnt}

RECURSIVE PacketLines(_)
PacketLines(inodes) ==
  IF inodes = <<>> THEN <<>> ELSE PacketLine(inodes[1]) \o PacketLines(Tail(inodes))

PacketTables ==
  {PacketAbsent} \cup
  {PacketFile(PacketHeader \o PacketLines(l)) : l \in AllSeqs(Inodes, MaxSockets)}

InitPromiscuous ==
  /\ Plain /\ PlainPs
  /\ packet \in PacketTables
  /\ \E f \in [Pids -> AllSeqs(FdLinks, MaxFds)] :
       proc = [p \in Pids |-> [Benign EXCEPT !.fd = File(f[p])]]

SpecPromiscuous == InitPromiscuous /\ [][Scan]_vars

(* ps_check over what ps may print, and how long it may take *)
PsPrinted == {PsLine(1), PsLine(2), PsLine(3), <<"4", "NL">>}

RECURSIVE Concat(_)
Concat(texts) == IF texts = <<>> THEN <<>> ELSE texts[1] \o Concat(Tail(texts))

InitPs ==
  /\ Plain /\ PlainPacket
  /\ proc = [p \in Pids |-> Benign]
  /\ \E seconds \in PsSeconds, l \in AllSeqs(PsPrinted, MaxPsLines) :
       ps = PsRun(seconds, Concat(l))

SpecPs == InitPs /\ [][Scan]_vars

(* the setter, called on an object outside of any scan *)
PyValues == {PyInt(1), PyInt(2), PyInt(3), PyStr, PyNone}

Arguments ==
  {PyList(l) : l \in AllSeqs(PyValues, MaxListLen)} \cup
  {PyTuple(<<PyInt(1), PyInt(2)>>), PyInt(1)}

SetPids ==
  /\ pc = "api"
  /\ \E pid_list \in Arguments :
       LET r == pids_setter(_pids, pid_list) IN
       /\ _pids' = r.pids
       /\ raised' = r.exc
  /\ UNCHANGED <<proc, gone, packet, ps, quiet, pc, results, report>>

InitSetter ==
  /\ _pids = <<PyInt(1), PyInt(2)>>
  /\ proc = [p \in Pids |-> Benign]
  /\ gone = {}
  /\ PlainPs /\ PlainPacket
  /\ quiet = FALSE
  /\ pc = "api"
  /\ results = NoResults
  /\ report = <<>>
  /\ raised = "none"

SpecSetter == InitSetter /\ [][SetPids]_vars

---------------------------------------------------------------------------
(* The claims *)

PerProcess == {"deleted", "path", "promiscuous", "thread", "cwd", "preload"}

Returned(d) == results[d].type = "list"
Flagged(d) == Elems(results[d].list)

(* the entries of a whole environment block, and the key of an entry *)
Entries(text) == Elems(split(text, "NUL"))
HasKey(e, key) == Len(e) >= 1 /\ e[1] = key
Environ(p) == proc[p].environ.v

(* C1: when a process of the snapshot has terminated before a per-process  *)
(* detector is called, the call raises nothing and its list does not hold  *)
(* the PID of that process.                                                *)
C1_VanishedSkipped ==
  [][\A d \in PerProcess :
       (gone # {} /\ results[d] = NotRun /\ results'[d] # NotRun)
         => /\ results'[d].exc = "none"
            /\ gone \cap Elems(results'[d].list) = {}]_vars

(* C2: ps_check returns the symmetric difference of the PIDs ps printed,   *)
(* one per line, and the PIDs of the snapshot.                             *)
PrintedPids(output) == {int(l) : l \in Elems(readlines(output))}

C2_PsSymmetricDifference ==
  Returned("ps") =>
    Flagged("ps") = symmetric_difference(PrintedPids(ps.output), Elems(_pids))

(* C3: a ps that takes longer than the timeout does not end the scan: the  *)
(* scan goes on to the thread check.                                       *)
C3_TimeoutConfined ==
  (ps.seconds > PsTimeout /\ results.ps # NotRun)
    => /\ raised # "TimeoutExpired"
       /\ pc \in {"thread", "cwd", "preload", "done", "aborted"}

(* C4: after any sequence of calls of the setter, every element of the     *)
(* stored PID list is an integer.                                          *)
C4_OnlyIntegers == \A i \in 1..Len(_pids) : isinstance(_pids[i], "int")

(* C5: thread_check flags a process exactly when its largest thread ID     *)
(* minus its smallest is more than 1000, in whatever order the task        *)
(* directory lists them.                                                   *)
Tids(p) == {int(n) : n \in Elems(proc[p].task.v)}
Largest(S) == CHOOSE x \in S : \A y \in S : y <= x
Smallest(S) == CHOOSE x \in S : \A y \in S : x <= y

C5_SpreadAnyOrder ==
  Returned("thread") =>
    \A p \in Pids : p \in Flagged("thread")
                      <=> Largest(Tids(p)) - Smallest(Tids(p)) > SpreadLimit

(* C6: path_check raises nothing and flags a process exactly when its own  *)
(* environment block has a PATH entry with a '.' in it.                    *)
HasDotPath(text) ==
  \E e \in Entries(text) : HasKey(e, "PATH=") /\ \E k \in 2..Len(e) : e[k] = "."

C6_PathOwnBlock ==
  results.path # NotRun =>
    /\ results.path.exc = "none"
    /\ \A p \in Pids : p \in Flagged("path") <=> HasDotPath(Environ(p))

(* C7: preload_check flags a process exactly when its environment block    *)
(* has an entry whose key is LD_PRELOAD, wherever the entry is.            *)
HasPreload(text) == \E e \in Entries(text) : HasKey(e, "LD_PRELOAD=")

C7_PreloadAnywhere ==
  Returned("preload") =>
    \A p \in Pids : p \in Flagged("preload") <=> HasPreload(Environ(p))

(* C8: promiscuous_check flags a process exactly when one of its           *)
(* descriptors is a socket whose inode is one of the inodes of the packet  *)
(* table.                                                                  *)
HoldsPacketSocket(p) ==
  \E f \in Elems(proc[p].fd.v) :
    f.ok /\ \E inode \in Elems(inode_list_of(packet.text)) : f.v = SocketLink(inode)

C8_InodeEquality ==
  Returned("promiscuous") =>
    \A p \in Pids : p \in Flagged("promiscuous") <=> HoldsPacketSocket(p)

(* C9: without the packet table promiscuous_check returns -1, the scan     *)
(* prints the section as unsupported and goes on to ps_check; with the     *)
(* table the call returns a list and no section is unsupported.            *)
Sections(name) == {report[i] : i \in {k \in 1..Len(report) : report[k].name = name}}

C9_Unsupported ==
  results.promiscuous # NotRun =>
    IF packet.isfile
    THEN /\ Returned("promiscuous")
         /\ \A sec \in Sections("promiscuous") : sec.state # "unsupported"
    ELSE /\ results.promiscuous = RetInt(-1)
         /\ pc # "promiscuous3"
         /\ pc # "promiscuous2" =>
              /\ Sections("promiscuous") # {}
              /\ \A sec \in Sections("promiscuous") : sec.state = "unsupported"
         /\ pc = "aborted" => results.ps # NotRun

C9_Witness ==
  /\ ~packet.isfile
  /\ pc = "done"
  /\ \E sec \in Sections("promiscuous") : sec.state = "unsupported"
  /\ Sections("preload") # {}

(* C10: the list a per-process detector returns holds PIDs of the snapshot *)
(* only, each at most once.                                                *)
C10_ResultIsSet ==
  \A d \in PerProcess :
    Returned(d) => Flagged(d) \subseteq Elems(_pids) /\ NoDup(results[d].list)

=============================================================================
